---------------------------- MODULE Spec2Model ----------------------------
(***************************************************************************)
(* wsgi_intercept: the registry of intercepted (host, port) pairs, the     *)
(* connect() overrides that consult it, the fake socket that runs a WSGI   *)
(* application in place of a server, and make_environ, which decodes the   *)
(* request written to that socket.                                         *)
(*                                                                         *)
(* Byte strings and text are sequences of one-character strings.  A port   *)
(* is supplied either as a Python int or as a str of digits.               *)
(***************************************************************************)
EXTENDS Integers, Sequences, FiniteSets, TLC

VARIABLES
    registry,   \* _wsgi_intercept: (host, port) -> (app_create_fn, script_name)
    conn,       \* the connection object connect() was last called on
    socks,      \* the wsgi_fake_socket objects created so far
    napps,      \* number of app_create_fn() invocations so far
    lastop,     \* the last call: <<"add", host, port>>, <<"sendall", outcome>>, ...
    run,        \* the frame of the makefile() call in progress
    ret,        \* outcome of the last makefile() call
    nev,        \* calls made so far on the fake sockets by clients and apps
    einp,       \* make_environ under test: its arguments
    eout,       \* make_environ under test: its result
    patch       \* the client libraries' connection classes, as patched

vars == <<registry, conn, socks, napps, lastop, run, ret, nev, einp, eout, patch>>

-----------------------------------------------------------------------------
(* Bounds of the exploration *)

MaxApps == 2        \* app_create_fn() invocations explored
MaxEvents == 6      \* calls made on one fake socket by its client and its app
MaxUrlLen == 3      \* length of the request URLs make_environ is tried on
MaxHeaders == 2     \* header lines of the requests make_environ is tried on
MaxCalls == 4       \* calls of the install and uninstall functions explored

-----------------------------------------------------------------------------
(* Values *)

IntPort(n) == <<"int", n>>
StrPort(d) == <<"str", d>>

Hosts == {"h"}
Ports == {IntPort(80), IntPort(81), StrPort(<<"8", "0">>)}

AppFns == {"create_fn", "create_falsy"}
ScriptNames == {<<>>, <<"/", "a">>}
Entries == {<<"create_fn", <<"/", "a">>>>, <<"create_falsy", <<>>>>}

Classes == {"WSGI_HTTPConnection", "WSGI_HTTPSConnection",
            "HTTP_WSGIInterceptorWithTimeout", "HTTPS_WSGIInterceptorWithTimeout"}

Digits == <<"0", "1", "2", "3", "4", "5", "6", "7", "8", "9">>

DigitVal(c) == (CHOOSE i \in 1..10 : Digits[i] = c) - 1

RECURSIVE StrToInt(_)
StrToInt(d) ==
    IF d = <<>> THEN 0
    ELSE 10 * StrToInt(SubSeq(d, 1, Len(d) - 1)) + DigitVal(d[Len(d)])

\* int(port)
PyInt(port) == IF port[1] = "int" THEN port[2] ELSE StrToInt(port[2])

\* the object app_create_fn() returns on its n-th invocation overall
NewApp(app_fn, n) == [id |-> n, truthy |-> app_fn # "create_falsy"]

NoApp == [id |-> 0, truthy |-> FALSE]

NoConn == [cls |-> "none", host |-> "", port |-> IntPort(0), sock |-> 0, real |-> 0]

Idle == [pc |-> "idle"]

NoOut == [done |-> FALSE, res |-> [raised |-> FALSE, environ |-> <<>>]]

NoRet == [kind |-> "none", data |-> <<>>, exc |-> "", run |-> Idle]

None == <<"None">>

\* the client libraries as imported: httplib2.SCHEME_TO_CONNECTION and
\* urllib3's connectionpool hold their own classes, connectionpool has no
\* old_http / old_https attribute, wsgi_fake_socket has no settimeout, and
\* no install or uninstall function has been called
Unset == "<unset>"

Unpatched ==
    [scheme_http |-> "HTTPConnectionWithTimeout",
     scheme_https |-> "HTTPSConnectionWithTimeout",
     pool_http |-> "HTTPConnection",
     pool_https |-> "HTTPSConnection",
     old_http |-> Unset,
     old_https |-> Unset,
     settimeout |-> FALSE,
     exc |-> "",
     calls |-> <<>>]

-----------------------------------------------------------------------------
(* The registry *)

\* _wsgi_intercept[(host, port)] = (app_create_fn, script_name)
add_wsgi_intercept(host, port, app_create_fn, script_name) ==
    /\ registry' = [k \in DOMAIN registry \cup {<<host, port>>} |->
                      IF k = <<host, port>> THEN <<app_create_fn, script_name>>
                      ELSE registry[k]]
    /\ lastop' = <<"add", host, port>>
    /\ UNCHANGED <<patch, conn, socks, napps, run, ret, nev, einp, eout>>

\* remove_wsgi_intercept(host, port)
remove_wsgi_intercept(host, port) ==
    /\ registry' = IF <<host, port>> \in DOMAIN registry
                   THEN [k \in DOMAIN registry \ {<<host, port>>} |-> registry[k]]
                   ELSE registry
    /\ lastop' = <<"none">>
    /\ UNCHANGED <<patch, conn, socks, napps, run, ret, nev, einp, eout>>

\* remove_wsgi_intercept()
remove_all ==
    /\ registry' = <<>>
    /\ lastop' = <<"none">>
    /\ UNCHANGED <<patch, conn, socks, napps, run, ret, nev, einp, eout>>

-----------------------------------------------------------------------------
(* Strings *)

LowerAZ == <<"a", "b", "c", "d", "e", "f", "g", "h", "i", "j", "k", "l", "m",
             "n", "o", "p", "q", "r", "s", "t", "u", "v", "w", "x", "y", "z">>

UpperAZ == <<"A", "B", "C", "D", "E", "F", "G", "H", "I", "J", "K", "L", "M",
             "N", "O", "P", "Q", "R", "S", "T", "U", "V", "W", "X", "Y", "Z">>

Whitespace == {" ", "\t", "\n", "\r"}

LowerChar(c) ==
    IF \E i \in 1..26 : UpperAZ[i] = c
    THEN LowerAZ[CHOOSE i \in 1..26 : UpperAZ[i] = c] ELSE c

UpperChar(c) ==
    IF \E i \in 1..26 : LowerAZ[i] = c
    THEN UpperAZ[CHOOSE i \in 1..26 : LowerAZ[i] = c] ELSE c

\* bytes.lower, bytes.upper, bytes.replace(b'-', b'_')
Lower(s) == [i \in 1..Len(s) |-> LowerChar(s[i])]

Upper(s) == [i \in 1..Len(s) |-> UpperChar(s[i])]

\* ReplaceHyphens leaving the hyphens in place
ReplaceHyphens_keep(s) == s

ReplaceHyphens(s) == [i \in 1..Len(s) |-> IF s[i] = "-" THEN "_" ELSE s[i]]

\* index of the first occurrence of c in s, 0 when there is none
Find(s, c) ==
    IF \E i \in 1..Len(s) : s[i] = c
    THEN CHOOSE i \in 1..Len(s) : s[i] = c /\ \A j \in 1..(i - 1) : s[j] # c
    ELSE 0

Drop(s, n) == SubSeq(s, n + 1, Len(s))

\* bytes.lstrip, bytes.strip
RECURSIVE LStrip(_)
LStrip(s) ==
    IF s # <<>> /\ s[1] \in Whitespace THEN LStrip(Tail(s)) ELSE s

RECURSIVE RStrip(_)
RStrip(s) ==
    IF s # <<>> /\ s[Len(s)] \in Whitespace
    THEN RStrip(SubSeq(s, 1, Len(s) - 1)) ELSE s

Strip(s) == RStrip(LStrip(s))

\* str.startswith
StartsWith(s, prefix) ==
    /\ Len(prefix) <= Len(s)
    /\ SubSeq(s, 1, Len(prefix)) = prefix

\* str.split(sep): the fields between every occurrence of sep
RECURSIVE Split(_, _)
Split(s, sep) ==
    IF Find(s, sep) = 0 THEN <<s>>
    ELSE <<SubSeq(s, 1, Find(s, sep) - 1)>> \o Split(Drop(s, Find(s, sep)), sep)

\* str.split(sep, 1): at most two fields, cut at the first sep
Split1(s, sep) ==
    IF Find(s, sep) = 0 THEN <<s>>
    ELSE <<SubSeq(s, 1, Find(s, sep) - 1), Drop(s, Find(s, sep))>>

\* BytesIO.readline: through the first newline, or to the end
ReadLine(s) ==
    IF Find(s, "\n") = 0 THEN s ELSE SubSeq(s, 1, Find(s, "\n"))

\* JoinCookies keeping only the last cookie line
JoinCookies_last(cookies) ==
    IF cookies = <<>> THEN <<>> ELSE cookies[Len(cookies)]

\* "; ".join(cookies)
RECURSIVE JoinCookies(_)
JoinCookies(cookies) ==
    IF cookies = <<>> THEN <<>>
    ELSE IF Len(cookies) = 1 THEN cookies[1]
    ELSE cookies[1] \o <<";", " ">> \o JoinCookies(Tail(cookies))

RECURSIVE Concat(_)
Concat(chunks) ==
    IF chunks = <<>> THEN <<>> ELSE chunks[1] \o Concat(Tail(chunks))

-----------------------------------------------------------------------------
(* make_environ *)

\* a key of the environ dictionary: a fixed name, or 'HTTP_' + h
Key(name) == <<name>>

HttpKey(h) == <<"HTTP_">> \o h

Put(d, k, v) == [x \in DOMAIN d \cup {k} |-> IF x = k THEN v ELSE d[x]]

ContentType == <<"c", "o", "n", "t", "e", "n", "t", "-", "t", "y", "p", "e">>

ContentLength ==
    <<"c", "o", "n", "t", "e", "n", "t", "-", "l", "e", "n", "g", "t", "h">>

Cookie == <<"c", "o", "o", "k", "i", "e">>

Cookie2 == <<"c", "o", "o", "k", "i", "e", "2">>

\* HeaderLine skipping a line that has no colon
HeaderLine_skip_no_colon(line, acc) ==
    LET kv == Split1(Strip(line), ":")
        k  == kv[1]
        v  == LStrip(kv[2])
    IN  IF Len(kv) # 2 THEN acc
        ELSE IF Lower(k) = ContentType THEN [acc EXCEPT !.content_type = v]
        ELSE IF Lower(k) = ContentLength THEN [acc EXCEPT !.content_length = v]
        ELSE IF Lower(k) = Cookie \/ Lower(k) = Cookie2
             THEN [acc EXCEPT !.cookies = Append(@, v)]
        ELSE [acc EXCEPT !.environ = Put(@, HttpKey(ReplaceHyphens(Upper(k))), v)]

\* one pass of the loop body of 'for line in inp', for a line that is not blank
HeaderLine(line, acc) ==
    LET kv == Split1(Strip(line), ":")
        k  == kv[1]
        v  == LStrip(kv[2])
    IN  IF Len(kv) # 2 THEN [acc EXCEPT !.raised = TRUE]
        ELSE IF Lower(k) = ContentType THEN [acc EXCEPT !.content_type = v]
        ELSE IF Lower(k) = ContentLength THEN [acc EXCEPT !.content_length = v]
        ELSE IF Lower(k) = Cookie \/ Lower(k) = Cookie2
             THEN [acc EXCEPT !.cookies = Append(@, v)]
        ELSE [acc EXCEPT !.environ = Put(@, HttpKey(ReplaceHyphens(Upper(k))), v)]

\* HeaderLoop leaving the blank line unread
RECURSIVE HeaderLoop_keep_blank(_, _)
HeaderLoop_keep_blank(rest, acc) ==
    IF rest = <<>> THEN [acc EXCEPT !.rest = <<>>]
    ELSE LET line  == ReadLine(rest)
             after == Drop(rest, Len(line))
         IN  IF Strip(line) = <<>> THEN [acc EXCEPT !.rest = rest]
             ELSE LET nxt == HeaderLine(line, acc)
                  IN  IF nxt.raised THEN nxt ELSE HeaderLoop_keep_blank(after, nxt)

\* 'for line in inp': up to the first blank line, or the end of the input;
\* .rest is what inp.read() returns afterwards
RECURSIVE HeaderLoop(_, _)
HeaderLoop(rest, acc) ==
    IF rest = <<>> THEN [acc EXCEPT !.rest = <<>>]
    ELSE LET line  == ReadLine(rest)
             after == Drop(rest, Len(line))
         IN  IF Strip(line) = <<>> THEN [acc EXCEPT !.rest = after]
             ELSE LET nxt == HeaderLine(line, acc)
                  IN  IF nxt.raised THEN nxt ELSE HeaderLoop(after, nxt)

\* clean_url with 'script_name' kept when the url does not start with it
clean_url_keep_script_name(url, script_name) ==
    LET u     == IF ~StartsWith(url, script_name) THEN url
                 ELSE Drop(url, Len(script_name))
        parts == Split1(u, "?")
    IN  [script_name |-> script_name,
         path_info |-> parts[1],
         query_string |-> IF Len(parts) = 2 THEN parts[2] ELSE <<>>]

\* "clean the script_name off of the url, if it's there", then cut the url at
\* the first '?'
clean_url(url, script_name) ==
    LET sn    == IF ~StartsWith(url, script_name) THEN <<>> ELSE script_name
        u     == IF ~StartsWith(url, script_name) THEN url
                 ELSE Drop(url, Len(script_name))
        parts == Split1(u, "?")
    IN  [script_name |-> sn,
         path_info |-> parts[1],
         query_string |-> IF Len(parts) = 2 THEN parts[2] ELSE <<>>]

\* BytesIO(r): a new stream holding r, positioned at its start
BytesIO(data) == [data |-> data, pos |-> 0]

\* the optional keys: 'if query_string', 'if content_type', ..., 'if cookies'
Optional(d, k, v) == IF v = None \/ v = <<>> THEN d ELSE Put(d, k, v)

make_environ(inp, host, port, script_name) ==
    LET method_line == ReadLine(inp)
        hdr == HeaderLoop(Drop(inp, Len(method_line)),
                   [environ |-> <<>>, content_type |-> None,
                    content_length |-> None, cookies |-> <<>>,
                    raised |-> FALSE, rest |-> <<>>])
        fields == Split(method_line, " ")
    IN  IF hdr.raised \/ Len(fields) # 3
        THEN [raised |-> TRUE, environ |-> <<>>]
        ELSE LET u  == clean_url(fields[2], script_name)
                 e0 == hdr.environ
                 e1 == Put(e0, Key("wsgi.version"), <<1, 0>>)
                 e2 == Put(e1, Key("wsgi.url_scheme"), "http")
                 e3 == Put(e2, Key("wsgi.input"), BytesIO(hdr.rest))
                 e4 == Put(e3, Key("wsgi.errors"), BytesIO(<<>>))
                 e5 == Put(e4, Key("wsgi.multithread"), 0)
                 e6 == Put(e5, Key("wsgi.multiprocess"), 0)
                 e7 == Put(e6, Key("wsgi.run_once"), 0)
                 e8 == Put(e7, Key("PATH_INFO"), u.path_info)
                 e9 == Put(e8, Key("REMOTE_ADDR"), "127.0.0.1")
                 e10 == Put(e9, Key("REQUEST_METHOD"), fields[1])
                 e11 == Put(e10, Key("SCRIPT_NAME"), u.script_name)
                 e12 == Put(e11, Key("SERVER_NAME"), host)
                 e13 == Put(e12, Key("SERVER_PORT"), port)
                 e14 == Put(e13, Key("SERVER_PROTOCOL"), fields[3])
                 e15 == Optional(e14, Key("QUERY_STRING"), u.query_string)
                 e16 == Optional(e15, Key("CONTENT_TYPE"), hdr.content_type)
                 e17 == Optional(e16, Key("CONTENT_LENGTH"), hdr.content_length)
                 e18 == IF hdr.cookies = <<>> THEN e17
                        ELSE Put(e17, HttpKey(<<"C", "O", "O", "K", "I", "E">>),
                                 JoinCookies(hdr.cookies))
             IN  [raised |-> FALSE, environ |-> e18]

-----------------------------------------------------------------------------
(* The connection classes *)

\* wsgi_fake_socket.__init__
wsgi_fake_socket(app, host, port, script_name) ==
    [app |-> app, host |-> host, port |-> port, script_name |-> script_name,
     inp |-> <<>>, write_results |-> <<>>, output |-> <<>>]

\* get_app matching on the host alone
get_app_host_only(host, port) ==
    IF \E k \in DOMAIN registry : k[1] = host
    THEN LET key == CHOOSE k \in DOMAIN registry : k[1] = host
         IN  [called |-> TRUE,
              app |-> NewApp(registry[key][1], napps + 1),
              script_name |-> registry[key][2]]
    ELSE [called |-> FALSE, app |-> NoApp, script_name |-> None]

\* WSGI_HTTPConnection.get_app; the mixin of the httplib2 classes too
get_app(host, port) ==
    LET key == <<host, IntPort(PyInt(port))>>
    IN  IF key \in DOMAIN registry
        THEN [called |-> TRUE,
              app |-> NewApp(registry[key][1], napps + 1),
              script_name |-> registry[key][2]]
        ELSE [called |-> FALSE, app |-> NoApp, script_name |-> None]

\* WSGI_HTTPSConnection.get_app
WSGI_HTTPSConnection_get_app(host, port) ==
    LET key == <<host, IntPort(PyInt(port))>>
    IN  IF key \in DOMAIN registry
        THEN [called |-> TRUE,
              app |-> NewApp(registry[key][1], napps + 1),
              script_name |-> registry[key][2]]
        ELSE [called |-> FALSE, app |-> NoApp, script_name |-> None]

\* WSGI_HTTPConnection.connect
WSGI_HTTPConnection_connect(host, port) ==
    LET got == get_app(host, port)
    IN  /\ run.pc = "idle"
        /\ got.called => napps < MaxApps
        /\ napps' = IF got.called THEN napps + 1 ELSE napps
        /\ IF got.app.truthy
           THEN /\ socks' = Append(socks,
                        wsgi_fake_socket(got.app, host, port, got.script_name))
                /\ conn' = [cls |-> "WSGI_HTTPConnection", host |-> host,
                            port |-> port, sock |-> Len(socks) + 1, real |-> 0]
           ELSE \* HTTPConnection.connect(self)
                /\ socks' = socks
                /\ conn' = [cls |-> "WSGI_HTTPConnection", host |-> host,
                            port |-> port, sock |-> 0, real |-> 1]
        /\ lastop' = <<"none">>
        /\ UNCHANGED <<patch, registry, run, ret, nev, einp, eout>>

\* WSGI_HTTPSConnection.connect
WSGI_HTTPSConnection_connect(host, port) ==
    LET got == WSGI_HTTPSConnection_get_app(host, port)
    IN  /\ run.pc = "idle"
        /\ got.called => napps < MaxApps
        /\ napps' = IF got.called THEN napps + 1 ELSE napps
        /\ IF got.app.truthy
           THEN /\ socks' = Append(socks,
                        wsgi_fake_socket(got.app, host, port, got.script_name))
                /\ conn' = [cls |-> "WSGI_HTTPSConnection", host |-> host,
                            port |-> port, sock |-> Len(socks) + 1, real |-> 0]
           ELSE \* HTTPSConnection.connect(self)
                /\ socks' = socks
                /\ conn' = [cls |-> "WSGI_HTTPSConnection", host |-> host,
                            port |-> port, sock |-> 0, real |-> 1]
        /\ lastop' = <<"none">>
        /\ UNCHANGED <<patch, registry, run, ret, nev, einp, eout>>

\* httplib2_intercept.connect, the connect of HTTP_WSGIInterceptorWithTimeout
\* and of HTTPS_WSGIInterceptorWithTimeout
connect(cls, host, port) ==
    LET got == get_app(host, port)
    IN  /\ run.pc = "idle"
        /\ got.called => napps < MaxApps
        /\ napps' = IF got.called THEN napps + 1 ELSE napps
        /\ IF got.app.truthy
           THEN /\ socks' = Append(socks,
                        wsgi_fake_socket(got.app, host, port, got.script_name))
                /\ conn' = [cls |-> cls, host |-> host,
                            port |-> port, sock |-> Len(socks) + 1, real |-> 0]
           ELSE \* self._connect()
                /\ socks' = socks
                /\ conn' = [cls |-> cls, host |-> host,
                            port |-> port, sock |-> 0, real |-> 1]
        /\ lastop' = <<"none">>
        /\ UNCHANGED <<patch, registry, run, ret, nev, einp, eout>>

-----------------------------------------------------------------------------
(* wsgi_fake_socket: the values an application hands to it *)

Bytes(v) == [t |-> "bytes", v |-> v]
Text(v) == [t |-> "str", v |-> v]
NoneItem == [t |-> "NoneType", v |-> <<>>]

\* what the application's iterator may yield
Items == {Bytes(<<"a">>), Bytes(<<"b">>), Bytes(<<>>), Text(<<>>), Text(<<"t">>), NoneItem}

\* 'if generator_data:'
Truthy(item) == item.v # <<>>

\* the (status, headers) the application may pass to start_response
StartArgs ==
    {<<<<"2", "0", "0">>, <<>>>>,
     <<<<"4", "0", "4">>, <<<<<<"K">>, <<"V">>>>, <<<<"L">>, <<"W">>>>>>>>}

\* the byte strings the application may pass to write_fn
WriteData == {<<"w">>, <<"v">>}

\* what the client may pass to sendall: a request line, a blank line, a line
\* without a colon, and a text value
SendData ==
    {Bytes(<<"G", " ", "/", "a", "/", "f", "?", "x", " ", "H", "\r", "\n">>),
     Bytes(<<"\r", "\n">>),
     Bytes(<<"b", "a", "d", "\r", "\n">>),
     Text(<<"t">>)}

-----------------------------------------------------------------------------
(* wsgi_fake_socket.makefile.                                              *)
(* The application is the environment: while makefile is inside            *)
(* self.app(environ, start_response) (pc "app"), inside the first          *)
(* next(self.result) (pc "first") or inside a later one (pc "rest"), the   *)
(* application may call start_response and the write_fn it returned, and   *)
(* then returns, yields, stops or raises.  Each action below is the code   *)
(* of makefile between two such points.  run.sr, run.writes and run.items  *)
(* record what the application did in this call of makefile; run.out0 and  *)
(* run.wr0 are self.output and self.write_results as the call found them,  *)
(* run.environ the environ the application was called with.                *)
(***************************************************************************)

InApp == run.pc \in {"app", "first", "rest"}

RECURSIVE HeaderBlock(_)
HeaderBlock(headers) ==
    IF headers = <<>> THEN <<>>
    ELSE headers[1][1] \o <<":">> \o headers[1][2] \o <<"\n">>
         \o HeaderBlock(Tail(headers))

\* what start_response writes to self.output
StartResponseBytes(status, headers) ==
    <<"H", "T", "T", "P", "/", "1", ".", "0", " ">> \o status \o <<"\n">>
    \o HeaderBlock(headers) \o <<"\n">>

\* wsgi_fake_socket.sendall.  self.inp.write(text) takes a byte string.  For a
\* text value it raises TypeError, and the handler of that exception calls
\* text.decode('utf-8'): a str of Python 3 has no decode (AttributeError, and
\* nothing is written); a unicode of Python 2 that is ASCII is written.
sendall(s, data) ==
    /\ run.pc = "idle"
    /\ nev < MaxEvents
    /\ nev' = nev + 1
    /\ \/ /\ data.t = "bytes"
          /\ socks' = [socks EXCEPT ![s].inp = @ \o data.v]
          /\ lastop' = <<"sendall", "returned">>
       \/ /\ data.t = "str"
          /\ socks' = socks
          /\ lastop' = <<"sendall", "AttributeError">>
       \/ /\ data.t = "str"
          /\ socks' = [socks EXCEPT ![s].inp = @ \o data.v]
          /\ lastop' = <<"sendall", "returned">>
    /\ UNCHANGED <<patch, registry, conn, napps, run, ret, einp, eout>>

\* makefile up to the call self.app(environ, start_response)
makefile_begin(s) ==
    /\ run.pc = "idle"
    /\ nev < MaxEvents
    /\ nev' = nev + 1
    /\ LET e == make_environ(socks[s].inp, socks[s].host, socks[s].port,
                             socks[s].script_name)
       IN  IF e.raised
           THEN /\ ret' = [kind |-> "raised", data |-> <<>>, exc |-> "ValueError",
                           run |-> Idle]
                /\ run' = Idle
           ELSE /\ run' = [pc |-> "app", sock |-> s, has_write |-> FALSE,
                           has_close |-> FALSE, closed |-> 0,
                           environ |-> e.environ,
                           sr |-> <<>>, writes |-> <<>>, items |-> <<>>,
                           out0 |-> socks[s].output,
                           wr0 |-> socks[s].write_results]
                /\ ret' = NoRet
    /\ lastop' = <<"makefile">>
    /\ UNCHANGED <<patch, registry, conn, socks, napps, einp, eout>>

\* start_response(status, headers), called by the application
start_response(status, headers) ==
    /\ InApp
    /\ nev < MaxEvents
    /\ nev' = nev + 1
    /\ socks' = [socks EXCEPT ![run.sock].output =
                     @ \o StartResponseBytes(status, headers)]
    /\ run' = [run EXCEPT !.has_write = TRUE,
                          !.sr = Append(@, [at |-> run.pc, status |-> status,
                                            headers |-> headers])]
    /\ UNCHANGED <<patch, registry, conn, napps, lastop, ret, einp, eout>>

\* write_fn(s), called by the application
write_fn(data) ==
    /\ InApp
    /\ run.has_write
    /\ nev < MaxEvents
    /\ nev' = nev + 1
    /\ socks' = [socks EXCEPT ![run.sock].write_results = Append(@, data)]
    /\ run' = [run EXCEPT !.writes = Append(@, [at |-> run.pc, data |-> data])]
    /\ UNCHANGED <<patch, registry, conn, napps, lastop, ret, einp, eout>>

\* the application raises inside self.app(environ, start_response)
app_raise ==
    /\ run.pc = "app"
    /\ ret' = [kind |-> "raised", data |-> <<>>, exc |-> "AppError", run |-> run]
    /\ run' = Idle
    /\ UNCHANGED <<patch, registry, conn, socks, napps, lastop, nev, einp, eout>>

\* the application returns app_result; makefile takes iter(app_result) and
\* calls next(self.result) for the first time
app_return(has_close) ==
    /\ run.pc = "app"
    /\ run' = [run EXCEPT !.pc = "first", !.has_close = has_close]
    /\ UNCHANGED <<patch, registry, conn, socks, napps, lastop, ret, nev, einp, eout>>

\* 'for data in self.write_results: self.output.write(data)'
Flush(output, write_results) == output \o Concat(write_results)

\* OutputAfterFirst with the item written before the collected writes
OutputAfterFirst_item_first(output, write_results, item) ==
    IF Truthy(item) /\ item.t = "bytes"
    THEN (output \o item.v) \o Concat(write_results)
    ELSE Flush(output, write_results)

\* self.output after the first item has been pulled: the 'finally' clause, then
\* 'if generator_data: self.output.write(generator_data)'
OutputAfterFirst(output, write_results, item) ==
    IF Truthy(item) /\ item.t = "bytes"
    THEN Flush(output, write_results) \o item.v
    ELSE Flush(output, write_results)

\* 'if hasattr(app_result, 'close'): app_result.close()', then
\* 'return BytesIO(self.output.getvalue())'
CloseAndReturn(frame, output) ==
    /\ ret' = [kind |-> "stream", data |-> output, exc |-> "",
               run |-> [frame EXCEPT !.closed = IF frame.has_close THEN @ + 1 ELSE @]]
    /\ run' = Idle

\* an exception other than StopIteration leaves makefile
Propagate(frame, exc) ==
    /\ ret' = [kind |-> "raised", data |-> <<>>, exc |-> exc, run |-> frame]
    /\ run' = Idle

\* the first next(self.result) yields item
first_yield(item) ==
    LET s     == run.sock
        out   == OutputAfterFirst(socks[s].output, socks[s].write_results, item)
        frame == [run EXCEPT !.items = Append(@, item)]
    IN  /\ run.pc = "first"
        /\ nev < MaxEvents
        /\ nev' = nev + 1
        /\ socks' = [socks EXCEPT ![s].output = out]
        /\ IF ~Truthy(item) THEN CloseAndReturn(frame, out)
           ELSE IF item.t # "bytes" THEN Propagate(frame, "TypeError")
           ELSE /\ run' = [frame EXCEPT !.pc = "rest"]
                /\ ret' = ret
        /\ UNCHANGED <<patch, registry, conn, napps, lastop, einp, eout>>

\* the first next(self.result) raises StopIteration
first_stop ==
    LET s   == run.sock
        out == Flush(socks[s].output, socks[s].write_results)
    IN  /\ run.pc = "first"
        /\ socks' = [socks EXCEPT ![s].output = out]
        /\ CloseAndReturn(run, out)
        /\ UNCHANGED <<patch, registry, conn, napps, lastop, nev, einp, eout>>

\* the first next(self.result) raises another exception
first_raise ==
    LET s   == run.sock
        out == Flush(socks[s].output, socks[s].write_results)
    IN  /\ run.pc = "first"
        /\ socks' = [socks EXCEPT ![s].output = out]
        /\ Propagate(run, "AppError")
        /\ UNCHANGED <<patch, registry, conn, napps, lastop, nev, einp, eout>>

\* rest_yield leaving a later item unwritten
rest_yield_skip_write(item) ==
    LET frame == [run EXCEPT !.items = Append(@, item)]
    IN  /\ run.pc = "rest"
        /\ nev < MaxEvents
        /\ nev' = nev + 1
        /\ socks' = socks
        /\ IF item.t = "bytes"
           THEN /\ run' = frame
                /\ ret' = ret
           ELSE Propagate(frame, "TypeError")
        /\ UNCHANGED <<patch, registry, conn, napps, lastop, einp, eout>>

\* a later next(self.result), in 'while 1', yields item
rest_yield(item) ==
    LET s     == run.sock
        frame == [run EXCEPT !.items = Append(@, item)]
    IN  /\ run.pc = "rest"
        /\ nev < MaxEvents
        /\ nev' = nev + 1
        /\ IF item.t = "bytes"
           THEN /\ socks' = [socks EXCEPT ![s].output = @ \o item.v]
                /\ run' = frame
                /\ ret' = ret
           ELSE /\ socks' = socks
                /\ Propagate(frame, "TypeError")
        /\ UNCHANGED <<patch, registry, conn, napps, lastop, einp, eout>>

\* a later next(self.result) raises StopIteration
rest_stop ==
    /\ run.pc = "rest"
    /\ CloseAndReturn(run, socks[run.sock].output)
    /\ UNCHANGED <<patch, registry, conn, socks, napps, lastop, nev, einp, eout>>

\* a later next(self.result) raises another exception
rest_raise ==
    /\ run.pc = "rest"
    /\ Propagate(run, "AppError")
    /\ UNCHANGED <<patch, registry, conn, socks, napps, lastop, nev, einp, eout>>

-----------------------------------------------------------------------------
(* Interception: the registry and the connection classes *)

Init ==
    /\ registry = <<>>
    /\ conn = NoConn
    /\ socks = <<>>
    /\ napps = 0
    /\ lastop = <<"none">>
    /\ run = Idle
    /\ ret = NoRet
    /\ nev = 0
    /\ patch = Unpatched
    /\ einp = <<"none">>
    /\ eout = NoOut

Add == \E h \in Hosts, p \in Ports, e \in Entries : add_wsgi_intercept(h, p, e[1], e[2])

Remove == \E h \in Hosts, p \in Ports : remove_wsgi_intercept(h, p)

RemoveAll == remove_all

ConnectHTTP == \E h \in Hosts, p \in Ports : WSGI_HTTPConnection_connect(h, p)

ConnectHTTPS == \E h \in Hosts, p \in Ports : WSGI_HTTPSConnection_connect(h, p)

ConnectHttplib2 ==
    \E c \in {"HTTP_WSGIInterceptorWithTimeout", "HTTPS_WSGIInterceptorWithTimeout"},
       h \in Hosts, p \in Ports : connect(c, h, p)

Next == Add \/ Remove \/ RemoveAll \/ ConnectHTTP \/ ConnectHTTPS \/ ConnectHttplib2

Spec == Init /\ [][Next]_vars

-----------------------------------------------------------------------------
(* One fake socket, as connect() creates it, its client and its application *)

InitSock ==
    /\ registry = <<>>
    /\ conn = [cls |-> "WSGI_HTTPConnection", host |-> "h", port |-> IntPort(80),
               sock |-> 1, real |-> 0]
    /\ socks = <<wsgi_fake_socket(NewApp("create_fn", 1), "h", IntPort(80), <<"/", "a">>)>>
    /\ napps = 1
    /\ lastop = <<"none">>
    /\ run = Idle
    /\ ret = NoRet
    /\ nev = 0
    /\ patch = Unpatched
    /\ einp = <<"none">>
    /\ eout = NoOut

Sendall == \E s \in 1..Len(socks), d \in SendData : sendall(s, d)

Makefile == \E s \in 1..Len(socks) : makefile_begin(s)

AppStartResponse == \E a \in StartArgs : start_response(a[1], a[2])

AppWrite == \E d \in WriteData : write_fn(d)

AppReturn == \E c \in BOOLEAN : app_return(c)

FirstYield == \E i \in Items : first_yield(i)

RestYield == \E i \in Items : rest_yield(i)

NextSock ==
    \/ Sendall \/ Makefile \/ AppStartResponse \/ AppWrite \/ AppReturn
    \/ app_raise \/ FirstYield \/ first_stop \/ first_raise
    \/ RestYield \/ rest_stop \/ rest_raise

SpecSock == InitSock /\ [][NextSock]_vars

-----------------------------------------------------------------------------
(* make_environ on its own: every request "G <url> H" with an empty header *)
(* block, decoded under every mount path; and requests with a request line *)
(* of two, three or four fields, up to MaxHeaders header lines and a body  *)

UrlChars == {"/", "a", "?"}

SeqsUpTo(S, n) == UNION {[1..k -> S] : k \in 0..n}

ExampleUrl == <<"/", "a", "p", "p", "/", "f", "o", "o", "?", "x", "=", "1">>

Urls == SeqsUpTo(UrlChars, MaxUrlLen) \cup {ExampleUrl}

MountPaths == {<<>>, <<"/">>, <<"/", "a">>, <<"/", "a", "p", "p">>}

RequestFor(url) == <<"G", " ">> \o url \o <<" ", "H", "\r", "\n", "\r", "\n">>

\* a header line 'name: value', or a line without a colon
Hdr(name, value) == [name |-> name, value |-> value, colon |-> TRUE]

NoColon(text) == [name |-> text, value |-> <<>>, colon |-> FALSE]

HeaderLines ==
    {Hdr(<<"C", "o", "o", "k", "i", "e">>, <<"a", "=", "1">>),
     Hdr(<<"C", "o", "o", "k", "i", "e">>, <<"b", "=", "2">>),
     Hdr(<<"c", "o", "o", "k", "i", "e", "2">>, <<"c">>),
     Hdr(<<"X", "-", "a">>, <<"v">>),
     Hdr(<<"X", "-", "A">>, <<"u">>),
     Hdr(<<"C", "o", "n", "t", "e", "n", "t", "-", "T", "y", "p", "e">>, <<"t">>),
     Hdr(<<"C", "o", "n", "t", "e", "n", "t", "-", "L", "e", "n", "g", "t", "h">>,
         <<"1">>),
     NoColon(<<"b", "a", "d">>)}

\* the bytes of a header line as the client sends it
RawLine(h) ==
    IF h.colon THEN h.name \o <<":", " ">> \o h.value \o <<"\r", "\n">>
    ELSE h.name \o <<"\r", "\n">>

\* the fields of the request line: METHOD URL VERSION, one missing, one extra
RequestLines ==
    {<<<<"G">>, <<"/", "a">>, <<"H">>>>,
     <<<<"G">>, <<"/", "a">>>>,
     <<<<"G">>, <<"/", "a">>, <<"H">>, <<"x">>>>}

RECURSIVE JoinFields(_)
JoinFields(fields) ==
    IF Len(fields) = 1 THEN fields[1]
    ELSE fields[1] \o <<" ">> \o JoinFields(Tail(fields))

\* what follows the blank line
Bodies == {<<>>, <<"b", "\r", "\n", "\r", "\n", "c">>}

RequestOf(fields, headers, body) ==
    JoinFields(fields) \o <<"\r", "\n">>
    \o Concat([i \in 1..Len(headers) |-> RawLine(headers[i])])
    \o <<"\r", "\n">> \o body

InitEnviron ==
    /\ registry = <<>>
    /\ conn = NoConn
    /\ socks = <<>>
    /\ napps = 0
    /\ lastop = <<"none">>
    /\ run = Idle
    /\ ret = NoRet
    /\ nev = 0
    /\ patch = Unpatched
    /\ \/ \E url \in Urls, m \in MountPaths :
             einp = [url |-> url, inp |-> RequestFor(url), host |-> "h",
                     port |-> IntPort(80), script_name |-> m,
                     fields |-> <<<<"G">>, url, <<"H">>>>,
                     headers |-> <<>>, body |-> <<>>]
       \/ \E f \in RequestLines, hs \in SeqsUpTo(HeaderLines, MaxHeaders),
             b \in Bodies :
             einp = [url |-> f[2], inp |-> RequestOf(f, hs, b), host |-> "h",
                     port |-> IntPort(80), script_name |-> <<>>,
                     fields |-> f, headers |-> hs, body |-> b]
    /\ eout = NoOut

Decode ==
    /\ ~eout.done
    /\ eout' = [done |-> TRUE,
                res |-> make_environ(einp.inp, einp.host, einp.port,
                                     einp.script_name)]
    /\ UNCHANGED <<patch, registry, conn, socks, napps, lastop, run, ret, nev, einp>>

NextEnviron == Decode

SpecEnviron == InitEnviron /\ [][NextEnviron]_vars

-----------------------------------------------------------------------------
(* httplib2_intercept.install / uninstall and                               *)
(* requests_intercept.install_opener / uninstall_opener.  patch.calls is    *)
(* the sequence of the functions called so far, patch.exc the exception the *)
(* last call raised ("" when it returned).                                  *)

\* the body of httplib2_intercept.install
SchemePatched(p) ==
    [p EXCEPT !.scheme_http = "HTTP_WSGIInterceptorWithTimeout",
              !.scheme_https = "HTTPS_WSGIInterceptorWithTimeout"]

\* the body of httplib2_intercept.uninstall
SchemeRestored(p) ==
    [p EXCEPT !.scheme_http = "HTTPConnectionWithTimeout",
              !.scheme_https = "HTTPSConnectionWithTimeout"]

\* the body of requests_intercept.install_opener
OpenerPatched(p) ==
    [SchemePatched(p) EXCEPT !.old_http = p.pool_http,
                             !.pool_http = "WSGI_HTTPConnection",
                             !.old_https = p.pool_https,
                             !.pool_https = "WSGI_HTTPSConnection",
                             !.settimeout = TRUE]

\* the body of requests_intercept.uninstall_opener; reading
\* connectionpool.old_http raises AttributeError when it was never set
OpenerRestored(p) ==
    IF p.old_http = Unset
    THEN [SchemeRestored(p) EXCEPT !.exc = "AttributeError"]
    ELSE [SchemeRestored(p) EXCEPT !.pool_http = p.old_http,
                                   !.pool_https = p.old_https]

\* a call of the function 'name' that leaves the libraries as in 'after'
Called(name, after) ==
    /\ Len(patch.calls) < MaxCalls
    /\ patch' = [after EXCEPT !.calls = Append(patch.calls, name)]
    /\ UNCHANGED <<registry, conn, socks, napps, lastop, run, ret, nev, einp, eout>>

install == Called("install", SchemePatched([patch EXCEPT !.exc = ""]))

uninstall == Called("uninstall", SchemeRestored([patch EXCEPT !.exc = ""]))

install_opener == Called("install_opener", OpenerPatched([patch EXCEPT !.exc = ""]))

uninstall_opener ==
    Called("uninstall_opener", OpenerRestored([patch EXCEPT !.exc = ""]))

InitInstall ==
    /\ registry = <<>>
    /\ conn = NoConn
    /\ socks = <<>>
    /\ napps = 0
    /\ lastop = <<"none">>
    /\ run = Idle
    /\ ret = NoRet
    /\ nev = 0
    /\ einp = <<"none">>
    /\ eout = NoOut
    /\ patch = Unpatched

NextInstall == install \/ uninstall \/ install_opener \/ uninstall_opener

SpecInstall == InitInstall /\ [][NextInstall]_vars

-----------------------------------------------------------------------------
(* Claims about the registry and the connection classes (checked under Spec) *)

\* the connect() of class c
ConnectOf(c, h, p) ==
    IF c = "WSGI_HTTPConnection" THEN WSGI_HTTPConnection_connect(h, p)
    ELSE IF c = "WSGI_HTTPSConnection" THEN WSGI_HTTPSConnection_connect(h, p)
    ELSE connect(c, h, p)

\* the registry key of (host, port): the port as an integer
KeyOf(h, p) == <<h, IntPort(PyInt(p))>>

Registered(h, p) == KeyOf(h, p) \in DOMAIN registry

\* the entries whose port denotes the same integer as p, however it is spelled
Matching(h, p) == {k \in DOMAIN registry : k[1] = h /\ PyInt(k[2]) = PyInt(p)}

\* C3: a connect to a (host, port) that is registered installs, whatever
\* handler object the factory returns and for every connection class, a fake
\* socket bound to (handler, host, port, mountPath) as the connection's socket,
\* and does not invoke the real connect.
C3_RegisteredIsIntercepted ==
    [][\A c \in Classes, h \in Hosts, p \in Ports :
          (ConnectOf(c, h, p) /\ Registered(h, p)) =>
              /\ conn'.real = 0
              /\ Len(socks') = Len(socks) + 1
              /\ conn'.sock = Len(socks')
              /\ socks'[Len(socks')].app.id = napps'
              /\ socks'[Len(socks')].host = h
              /\ socks'[Len(socks')].port = p
              /\ socks'[Len(socks')].script_name = registry[KeyOf(h, p)][2]]_vars

\* C4: a connect to a (host, port) with no entry in the registry invokes the
\* real connect exactly once, invokes no factory and installs no fake socket.
C4_UnregisteredGoesReal ==
    [][\A c \in Classes, h \in Hosts, p \in Ports :
          (ConnectOf(c, h, p) /\ ~Registered(h, p)) =>
              /\ conn'.real = 1
              /\ conn'.sock = 0
              /\ napps' = napps
              /\ socks' = socks]_vars

\* a real connect has been made, with the port given as a str, while no
\* factory has ever been invoked, to a key that has no entry while another
\* key has one
C4_Witness ==
    /\ conn.real = 1
    /\ conn.sock = 0
    /\ conn.port[1] = "str"
    /\ napps = 0
    /\ ~Registered(conn.host, conn.port)
    /\ DOMAIN registry # {}

\* C5: unregister of a key that has no entry leaves the registry unchanged;
\* register(host, port, f) followed immediately by unregister(host, port)
\* leaves lookup(host, port) returning not-found.
C5_UnregisterIdempotent ==
    /\ [][\A h \in Hosts, p \in Ports :
             (remove_wsgi_intercept(h, p) /\ <<h, p>> \notin DOMAIN registry)
                 => registry' = registry]_vars
    /\ [][\A h \in Hosts, p \in Ports :
             (remove_wsgi_intercept(h, p) /\ lastop = <<"add", h, p>>)
                 => ~get_app(h, p).called']_vars

\* C6: an entry registered with port p is found by a lookup with port q
\* whenever p and q denote the same integer, each being an int or a str; and
\* unregister with such a q removes it.
C6_MatchOnIntegerValue ==
    /\ [](\A h \in Hosts, p \in Ports, q \in Ports :
             (<<h, p>> \in DOMAIN registry /\ PyInt(p) = PyInt(q))
                 => get_app(h, q).called)
    /\ [][\A h \in Hosts, q \in Ports :
             remove_wsgi_intercept(h, q) => Matching(h, q)' = {}]_vars

\* C7: every connect to a registered (host, port) invokes the factory exactly
\* once and binds the handler it returned to a newly created fake socket; no
\* two fake sockets share a handler.
C7_FreshHandlerPerConnect ==
    /\ [][\A c \in Classes, h \in Hosts, p \in Ports :
             (ConnectOf(c, h, p) /\ Registered(h, p)) =>
                 /\ napps' = napps + 1
                 /\ Len(socks') = Len(socks) + 1
                 /\ SubSeq(socks', 1, Len(socks)) = socks
                 /\ socks'[Len(socks')].app.id = napps'
                 /\ conn'.sock = Len(socks')]_vars
    /\ [](\A i, j \in 1..Len(socks) : i # j => socks[i].app.id # socks[j].app.id)

-----------------------------------------------------------------------------
(* Claims about makefile (checked under SpecSock) *)

\* the last makefile call has ended and had got as far as calling the application
Ended == ret.kind # "none" /\ ret.run.pc # "idle"

\* start_response was called exactly once, during the application call or
\* while the first item was being produced
OneEarlyStart(f) == Len(f.sr) = 1 /\ f.sr[1].at \in {"app", "first"}

\* the byte strings passed to write_fn at the stages in 'at', in call order
RECURSIVE WritesAt(_, _)
WritesAt(writes, at) ==
    IF writes = <<>> THEN <<>>
    ELSE (IF writes[1].at \in at THEN writes[1].data ELSE <<>>)
         \o WritesAt(Tail(writes), at)

\* the items that belong to the body: none when the first is empty, else all
BodyItems(f) ==
    IF f.items = <<>> \/ ~Truthy(f.items[1]) THEN <<>>
    ELSE Concat([i \in 1..Len(f.items) |-> f.items[i].v])

StatusLine(status) ==
    <<"H", "T", "T", "P", "/", "1", ".", "0", " ">> \o status \o <<"\n">>

HeaderLinesOf(headers) ==
    Concat([i \in 1..Len(headers) |->
               headers[i][1] \o <<":">> \o headers[i][2] \o <<"\n">>])

\* C1: when the handler calls start_response exactly once, with status S and
\* headers H, before or while producing its first chunk, the stream makefile
\* returns is exactly "HTTP/1.0 " S "\n", then K ":" V "\n" for each header in
\* order, then "\n", then the body (the early direct writes, then the
\* chunks), with nothing before the status line and nothing after the body.
C1_ExactStream ==
    (ret.kind = "stream" /\ OneEarlyStart(ret.run)) =>
        ret.data = StatusLine(ret.run.sr[1].status)
                   \o HeaderLinesOf(ret.run.sr[1].headers) \o <<"\n">>
                   \o WritesAt(ret.run.writes, {"app", "first"})
                   \o BodyItems(ret.run)

\* the same, for a makefile call that found self.output and
\* self.write_results empty, as the first call on a socket does
FreshSocketExactStream ==
    (ret.kind = "stream" /\ OneEarlyStart(ret.run)
     /\ ret.run.out0 = <<>> /\ ret.run.wr0 = <<>>) =>
        ret.data = StatusLine(ret.run.sr[1].status)
                   \o HeaderLinesOf(ret.run.sr[1].headers) \o <<"\n">>
                   \o WritesAt(ret.run.writes, {"app", "first"})
                   \o BodyItems(ret.run)

\* what start_response wrote during the application call and the first pull
RECURSIVE EarlyHeads(_)
EarlyHeads(sr) ==
    IF sr = <<>> THEN <<>>
    ELSE (IF sr[1].at \in {"app", "first"}
          THEN StartResponseBytes(sr[1].status, sr[1].headers) ELSE <<>>)
         \o EarlyHeads(Tail(sr))

\* C2: the bytes the handler wrote with write_fn during the application call
\* or while its first chunk was being produced, and that first chunk, are both
\* in the returned stream, every such write before the chunk: they stand, in
\* call order and followed at once by the chunk, right after what was in the
\* stream before the first pull ended.
C2_WritesBeforeFirstChunk ==
    (ret.kind = "stream" /\ ret.run.items # <<>> /\ ret.run.items[1].t = "bytes") =>
        LET f     == ret.run
            pos   == Len(f.out0) + Len(EarlyHeads(f.sr)) + Len(Concat(f.wr0))
            w     == WritesAt(f.writes, {"app", "first"})
            first == f.items[1].v
        IN  /\ Len(ret.data) >= pos + Len(w) + Len(first)
            /\ SubSeq(ret.data, pos + 1, pos + Len(w) + Len(first)) = w \o first

\* a stream was returned after the handler wrote both during the application
\* call and during the first pull, which yielded a non-empty chunk
C2_Witness ==
    /\ ret.kind = "stream"
    /\ ret.run.items # <<>>
    /\ ret.run.items[1].t = "bytes"
    /\ ret.run.items[1].v # <<>>
    /\ \E i, j \in 1..Len(ret.run.writes) :
           /\ ret.run.writes[i].at = "app"
           /\ ret.run.writes[j].at = "first"
           /\ ret.run.writes[i].data # ret.run.writes[j].data

\* C8: when the handler's output object has a close method, makefile calls it
\* exactly once on every way out: the sequence ending, an empty first item,
\* and an error raised while an item is produced or written.
C8_CloseOnEveryExit ==
    (Ended /\ ret.run.pc \in {"first", "rest"} /\ ret.run.has_close) =>
        ret.run.closed = 1

\* C9: a non-byte item yielded at any position, whatever its value, makes
\* makefile raise; no stream is returned.
C9_NonByteItemIsFatal ==
    (Ended /\ \E i \in 1..Len(ret.run.items) : ret.run.items[i].t # "bytes") =>
        ret.kind = "raised"

-----------------------------------------------------------------------------
(* Claims about make_environ (checked under SpecEnviron) *)

\* the request has a request line of three fields and a colon in every header
\* line
WellFormed ==
    /\ Len(einp.fields) = 3
    /\ \A i \in 1..Len(einp.headers) : einp.headers[i].colon

\* C10: decoding a well-formed request for URL u under mount path M raises
\* nothing; when u starts with M, SCRIPT_NAME is M and PATH_INFO is u without that prefix,
\* up to its first '?', and the query string is what follows that '?'; when
\* u does not start with M, SCRIPT_NAME is empty and PATH_INFO is u up to
\* its first '?'.  (An empty query string is one that has no QUERY_STRING
\* key.)  Mount path "/app" and URL "/app/foo?x=1" give "/foo" and "x=1".
C10_MountPathStripping ==
    (eout.done /\ WellFormed) =>
        LET url   == einp.url
            M     == einp.script_name
            pre   == Len(M) <= Len(url) /\ \A i \in 1..Len(M) : url[i] = M[i]
            rest  == IF pre THEN [i \in 1..(Len(url) - Len(M)) |-> url[i + Len(M)]]
                     ELSE url
            marks == {i \in 1..Len(rest) : rest[i] = "?"}
            q     == IF marks = {} THEN Len(rest) + 1
                     ELSE CHOOSE i \in marks : \A j \in marks : i <= j
            path  == [i \in 1..(q - 1) |-> rest[i]]
            query == [i \in 1..(Len(rest) - q) |-> rest[i + q]]
            env   == eout.res.environ
        IN  /\ ~eout.res.raised
            /\ env[Key("SCRIPT_NAME")] = IF pre THEN M ELSE <<>>
            /\ env[Key("PATH_INFO")] = path
            /\ IF Key("QUERY_STRING") \in DOMAIN env
               THEN env[Key("QUERY_STRING")] = query
               ELSE query = <<>>
            /\ (url = ExampleUrl /\ M = <<"/", "a", "p", "p">>) =>
                   /\ env[Key("PATH_INFO")] = <<"/", "f", "o", "o">>
                   /\ env[Key("QUERY_STRING")] = <<"x", "=", "1">>

\* the request for "/app/foo?x=1" has been decoded under mount path "/app"
C10_Witness ==
    /\ eout.done
    /\ einp.url = ExampleUrl
    /\ einp.script_name = <<"/", "a", "p", "p">>
    /\ eout.res.environ[Key("SCRIPT_NAME")] = <<"/", "a", "p", "p">>
    /\ eout.res.environ[Key("PATH_INFO")] = <<"/", "f", "o", "o">>

\* the header block holds the lines named 'names' (spelled as the client sent
\* them), and 'ValuesOf' is their values in the order of the request
RECURSIVE ValuesOf(_, _)
ValuesOf(headers, names) ==
    IF headers = <<>> THEN <<>>
    ELSE (IF headers[1].name \in names THEN <<headers[1].value>> ELSE <<>>)
         \o ValuesOf(Tail(headers), names)

\* the header names of HeaderLines that are cookie or cookie2 in some case
CookieNames == {<<"C", "o", "o", "k", "i", "e">>, <<"c", "o", "o", "k", "i", "e", "2">>}

RECURSIVE JoinedBySemicolon(_)
JoinedBySemicolon(values) ==
    IF Len(values) = 1 THEN values[1]
    ELSE values[1] \o <<";", " ">> \o JoinedBySemicolon(Tail(values))

\* C11: the values of all header lines named cookie or cookie2, in any case,
\* are joined by "; " in the order of the request into the one field
\* HTTP_COOKIE ("a=1" and "b=2" give "a=1; b=2"); the field is absent when
\* the request has no such line.
C11_CookiesJoined ==
    (eout.done /\ WellFormed) =>
        LET values == ValuesOf(einp.headers, CookieNames)
            env    == eout.res.environ
            field  == HttpKey(<<"C", "O", "O", "K", "I", "E">>)
        IN  /\ ~eout.res.raised
            /\ IF values = <<>> THEN field \notin DOMAIN env
               ELSE /\ field \in DOMAIN env
                    /\ env[field] = JoinedBySemicolon(values)
            /\ values = <<<<"a", "=", "1">>, <<"b", "=", "2">>>> =>
                   env[field] = <<"a", "=", "1", ";", " ", "b", "=", "2">>

\* two Cookie lines "a=1" and "b=2" have been decoded into one field
C11_Witness ==
    /\ eout.done
    /\ Len(einp.headers) = 2
    /\ einp.headers[1].value = <<"a", "=", "1">>
    /\ einp.headers[2].value = <<"b", "=", "2">>
    /\ ~eout.res.raised
    /\ eout.res.environ[HttpKey(<<"C", "O", "O", "K", "I", "E">>)]
           = <<"a", "=", "1", ";", " ", "b", "=", "2">>

-----------------------------------------------------------------------------
(* Claims about the request a fake socket has accumulated (SpecSock)         *)

\* the lines of a byte string, each through its "\n"
RECURSIVE LinesOf(_)
LinesOf(bytes) ==
    IF bytes = <<>> THEN <<>>
    ELSE LET nl == {i \in 1..Len(bytes) : bytes[i] = "\n"}
             n  == IF nl = {} THEN Len(bytes)
                   ELSE CHOOSE i \in nl : \A j \in nl : i <= j
             first == [i \in 1..n |-> bytes[i]]
             rest  == [i \in 1..(Len(bytes) - n) |-> bytes[i + n]]
         IN  <<first>> \o LinesOf(rest)

IsBlank(line) == \A i \in 1..Len(line) : line[i] \in {" ", "\t", "\r", "\n"}

\* the request line has exactly three fields: exactly two spaces
ThreeFields(bytes) ==
    /\ bytes # <<>>
    /\ Cardinality({i \in 1..Len(LinesOf(bytes)[1]) : LinesOf(bytes)[1][i] = " "}) = 2

\* the index in LinesOf(bytes) of the first blank line after the request line,
\* or one past the last line
BlankAt(bytes) ==
    LET ls == LinesOf(bytes)
        bl == {i \in 2..Len(ls) : IsBlank(ls[i])}
    IN  IF bl = {} THEN Len(ls) + 1 ELSE CHOOSE i \in bl : \A j \in bl : i <= j

\* some header line before the blank line has no colon
HeaderWithoutColon(bytes) ==
    \E i \in 2..(BlankAt(bytes) - 1) :
        \A j \in 1..Len(LinesOf(bytes)[i]) : LinesOf(bytes)[i][j] # ":"

Malformed(bytes) == ~ThreeFields(bytes) \/ HeaderWithoutColon(bytes)

\* C12: when the bytes a socket has accumulated have no request line of
\* exactly three space-separated fields, or have a header line without a
\* colon before the blank line, makefile raises (ValueError), the application
\* is not called and no stream is returned.
C12_MalformedRequestRaises ==
    [][\A s \in 1..Len(socks) :
          (makefile_begin(s) /\ Malformed(socks[s].inp)) =>
              /\ ret'.kind = "raised"
              /\ ret'.exc = "ValueError"
              /\ run' = Idle
              /\ socks' = socks]_vars

\* makefile has raised ValueError on a request with a three-field request
\* line and a header line without a colon
C12_Witness ==
    /\ lastop = <<"makefile">>
    /\ ret.kind = "raised"
    /\ ret.exc = "ValueError"
    /\ run = Idle
    /\ ThreeFields(socks[1].inp)
    /\ HeaderWithoutColon(socks[1].inp)

\* make_environ raises on every malformed request it is tried on, and on no
\* other (SpecEnviron)
DecodeRaisesIffMalformed ==
    eout.done => (eout.res.raised <=> Malformed(einp.inp))

\* C13: sendall accepts a byte string and a text value alike: it raises
\* nothing and appends the value's bytes to the end of self.inp, leaving what
\* was written before unchanged.
C13_SendallAcceptsTextAndBytes ==
    [][\A s \in 1..Len(socks), d \in SendData :
          sendall(s, d) =>
              /\ lastop' = <<"sendall", "returned">>
              /\ socks'[s].inp = socks[s].inp \o d.v]_vars

-----------------------------------------------------------------------------
(* Claims about the body makefile builds (SpecSock) *)

\* how many times the byte string d stands in bytes
Occurrences(bytes, d) ==
    Cardinality({i \in 1..(Len(bytes) - Len(d) + 1) :
                    \A j \in 1..Len(d) : bytes[i + j - 1] = d[j]})

\* C14: every write_fn(b) the application makes during a makefile call, be it
\* during the application call, the first pull or a later pull, appends b to
\* the body: the stream the call returns holds b once more, for every such
\* call, than self.output held when the call began.
C14_EveryWriteInStream ==
    ret.kind = "stream" =>
        \A d \in WriteData :
            Occurrences(ret.data, d) >=
                Occurrences(ret.run.out0, d)
                + Cardinality({i \in 1..Len(ret.run.writes) :
                                  ret.run.writes[i].data = d})

\* the last n bytes of a byte string
Suffix(bytes, n) == [i \in 1..n |-> bytes[Len(bytes) - n + i]]

-----------------------------------------------------------------------------
(* Claims about the registry as a map (Spec) *)

\* what a lookup of (h, p) gives: found or not, which factory made the
\* handler, and the mount path
LookupOf(h, p) ==
    <<get_app(h, p).called, get_app(h, p).app.truthy, get_app(h, p).script_name>>

\* the lookup result for an entry (app_create_fn, script_name)
Found(e) == <<TRUE, e[1] # "create_falsy", e[2]>>

NotFound == <<FALSE, NoApp.truthy, None>>

\* the steps of the registry operations on the ports in P: a register makes
\* the lookup of its key return its entry, an unregister makes it return
\* not-found, both leave the lookups of the keys with another port number
\* as they were, and unregisterAll leaves the registry empty
RegistrySteps(P) ==
    /\ \A h \in Hosts, p \in P, e \in Entries :
           add_wsgi_intercept(h, p, e[1], e[2]) =>
               /\ LookupOf(h, p)' = Found(e)
               /\ \A q \in Ports : PyInt(q) # PyInt(p) => LookupOf(h, q)' = LookupOf(h, q)
    /\ \A h \in Hosts, p \in P :
           remove_wsgi_intercept(h, p) =>
               /\ LookupOf(h, p)' = NotFound
               /\ \A q \in Ports : PyInt(q) # PyInt(p) => LookupOf(h, q)' = LookupOf(h, q)
    /\ remove_all =>
           /\ registry' = <<>>
           /\ \A h \in Hosts, q \in Ports : LookupOf(h, q)' = NotFound
    /\ (\E c \in Classes, h \in Hosts, p \in Ports : ConnectOf(c, h, p)) =>
           \A h \in Hosts, q \in Ports : LookupOf(h, q)' = LookupOf(h, q)

\* C16: after any sequence of register, unregister and unregisterAll calls,
\* lookup(host, port) returns the entry of the most recent register of that
\* key not followed by an unregister of it or by unregisterAll, and not-found
\* otherwise; register overwrites, register and unregister leave the other
\* keys alone, unregisterAll empties the registry.  Stated step by step, for
\* ports given as an int or as a str.
C16_RegistrySemantics == [][RegistrySteps(Ports)]_vars

\* the same for the registry operations called with an int port
IntPortRegistrySemantics == [][RegistrySteps({p \in Ports : p[1] = "int"})]_vars

-----------------------------------------------------------------------------
(* Claims about what the application is called with (SpecSock) *)

\* the bytes that follow the first blank line after the request line
BodyOf(bytes) ==
    LET ls == LinesOf(bytes)
    IN  Concat([i \in 1..(Len(ls) - BlankAt(bytes)) |-> ls[i + BlankAt(bytes)]])

\* the bytes before the first space
MethodOf(bytes) ==
    LET sp == {i \in 1..Len(bytes) : bytes[i] = " "}
        k  == IF sp = {} THEN Len(bytes) + 1 ELSE CHOOSE i \in sp : \A j \in sp : i <= j
    IN  [i \in 1..(k - 1) |-> bytes[i]]

\* C17: the application is called by makefile only, never by sendall; what it
\* is called with is decoded from the bytes written by the sendall calls made
\* before, concatenated in call order (each sendall that returns appends its
\* bytes to self.inp and nothing else changes self.inp); environ['wsgi.input']
\* is a new stream at offset zero that holds exactly the bytes following the
\* first blank line of self.inp.
C17_HandlerSeesAccumulatedRequest ==
    /\ [][\A s \in 1..Len(socks) :
             (makefile_begin(s) /\ run'.pc = "app") =>
                 /\ run'.sock = s
                 /\ run'.environ[Key("wsgi.input")]
                        = [data |-> BodyOf(socks[s].inp), pos |-> 0]
                 /\ run'.environ[Key("REQUEST_METHOD")] = MethodOf(socks[s].inp)]_vars
    /\ [][(run.pc = "idle" /\ run'.pc # "idle") =>
             \E s \in 1..Len(socks) : makefile_begin(s)]_vars
    /\ [][\A s \in 1..Len(socks), d \in SendData :
             sendall(s, d) =>
                 /\ run' = run
                 /\ \/ socks'[s].inp = socks[s].inp \o d.v
                    \/ lastop'[2] # "returned" /\ socks'[s].inp = socks[s].inp]_vars
    /\ [][\A s \in 1..Len(socks) :
             socks'[s].inp # socks[s].inp => \E d \in SendData : sendall(s, d)]_vars

\* the application has been called with a body: the client had sent a
\* request line, a blank line and "bad\r\n", in that order
C17_Witness ==
    /\ run.pc = "app"
    /\ socks[run.sock].inp
           = <<"G", " ", "/", "a", "/", "f", "?", "x", " ", "H", "\r", "\n",
               "\r", "\n", "b", "a", "d", "\r", "\n">>
    /\ run.environ[Key("wsgi.input")] = BytesIO(<<"b", "a", "d", "\r", "\n">>)

\* connect calls the factory, never the application (Spec)
ConnectNeverCallsHandler == run = Idle /\ ret = NoRet

-----------------------------------------------------------------------------
(* Claims about the keys of the decoded request (SpecEnviron) *)

\* the names of HeaderLines that have a field of their own
ReservedNames ==
    {<<"C", "o", "o", "k", "i", "e">>, <<"c", "o", "o", "k", "i", "e", "2">>,
     <<"C", "o", "n", "t", "e", "n", "t", "-", "T", "y", "p", "e">>,
     <<"C", "o", "n", "t", "e", "n", "t", "-", "L", "e", "n", "g", "t", "h">>}

\* the key a header name of HeaderLines is to be stored under: "HTTP_", then
\* the name in upper case with '_' for '-'
ExpectedKey(name) ==
    IF name \in {<<"X", "-", "a">>, <<"X", "-", "A">>}
    THEN <<"HTTP_", "X", "_", "A">>
    ELSE <<"HTTP_">> \o name

\* what follows the first '?' of a url
QueryOfUrl(url) ==
    LET marks == {i \in 1..Len(url) : url[i] = "?"}
        q     == IF marks = {} THEN Len(url)
                 ELSE CHOOSE i \in marks : \A j \in marks : i <= j
    IN  [i \in 1..(Len(url) - q) |-> url[i + q]]

\* content-type and content-length are stored in CONTENT_TYPE and
\* CONTENT_LENGTH only, and these two and QUERY_STRING are absent when the
\* request supplies none
DedicatedFields ==
    LET env == eout.res.environ
        ct  == ValuesOf(einp.headers,
                   {<<"C", "o", "n", "t", "e", "n", "t", "-", "T", "y", "p", "e">>})
        cl  == ValuesOf(einp.headers,
                   {<<"C", "o", "n", "t", "e", "n", "t", "-", "L", "e", "n", "g", "t", "h">>})
    IN  /\ \A k \in DOMAIN env :
               k[1] = "HTTP_" =>
                   /\ k \notin {<<"HTTP_", "C", "O", "N", "T", "E", "N", "T", "_", "T", "Y", "P", "E">>,
                                <<"HTTP_", "C", "O", "N", "T", "E", "N", "T", "_", "L", "E", "N", "G", "T", "H">>}
                   /\ \A n \in ReservedNames : k # <<"HTTP_">> \o n
        /\ IF ct = <<>> THEN Key("CONTENT_TYPE") \notin DOMAIN env
           ELSE env[Key("CONTENT_TYPE")] = ct[Len(ct)]
        /\ IF cl = <<>> THEN Key("CONTENT_LENGTH") \notin DOMAIN env
           ELSE env[Key("CONTENT_LENGTH")] = cl[Len(cl)]
        /\ QueryOfUrl(einp.url) = <<>> => Key("QUERY_STRING") \notin DOMAIN env

\* C18: for every header line whose name is not content-type, content-length,
\* cookie or cookie2, the decoded request holds the line's left-trimmed value
\* under "HTTP_" + the name in upper case with '_' for '-'; content-type and
\* content-length are stored in their own fields only; those fields and
\* QUERY_STRING are absent when the request supplies none.
C18_HeaderKeys ==
    (eout.done /\ WellFormed) =>
        /\ ~eout.res.raised
        /\ \A i \in 1..Len(einp.headers) :
               einp.headers[i].name \notin ReservedNames =>
                   /\ ExpectedKey(einp.headers[i].name) \in DOMAIN eout.res.environ
                   /\ eout.res.environ[ExpectedKey(einp.headers[i].name)]
                          = einp.headers[i].value
        /\ DedicatedFields

\* C18 as amended: the same, where of several header lines that have the same
\* key the value of the last one is held.
C18_HeaderKeysLastWins ==
    (eout.done /\ WellFormed) =>
        /\ ~eout.res.raised
        /\ \A i \in 1..Len(einp.headers) :
               (/\ einp.headers[i].name \notin ReservedNames
                /\ \A j \in (i + 1)..Len(einp.headers) :
                       ExpectedKey(einp.headers[j].name)
                           # ExpectedKey(einp.headers[i].name)) =>
                   /\ ExpectedKey(einp.headers[i].name) \in DOMAIN eout.res.environ
                   /\ eout.res.environ[ExpectedKey(einp.headers[i].name)]
                          = einp.headers[i].value
        /\ DedicatedFields

\* a request with the lines "X-a: v" and "X-A: u" has been decoded: HTTP_X_A
\* holds "u"
C18_Witness ==
    /\ eout.done
    /\ ~eout.res.raised
    /\ Len(einp.headers) = 2
    /\ einp.headers[1] = Hdr(<<"X", "-", "a">>, <<"v">>)
    /\ einp.headers[2] = Hdr(<<"X", "-", "A">>, <<"u">>)
    /\ eout.res.environ[<<"HTTP_", "X", "_", "A">>] = <<"u">>

\* C19: for a well-formed request whose request line is "METHOD URL VERSION"
\* and a line terminator, SERVER_PROTOCOL is VERSION exactly, with no
\* carriage return and no line feed in it, and REQUEST_METHOD is METHOD.
C19_ProtocolVersionExact ==
    (eout.done /\ WellFormed) =>
        /\ ~eout.res.raised
        /\ eout.res.environ[Key("REQUEST_METHOD")] = einp.fields[1]
        /\ eout.res.environ[Key("SERVER_PROTOCOL")] = einp.fields[3]
        /\ \A i \in 1..Len(eout.res.environ[Key("SERVER_PROTOCOL")]) :
               eout.res.environ[Key("SERVER_PROTOCOL")][i] \notin {"\r", "\n"}

-----------------------------------------------------------------------------
(* Claims about several makefile calls on one socket (SpecSock) *)

\* what the start_response calls of one makefile call are to put out
ResponseHeads(sr) ==
    Concat([i \in 1..Len(sr) |->
               StatusLine(sr[i].status) \o HeaderLinesOf(sr[i].headers) \o <<"\n">>])

\* C20: the stream a makefile call returns holds the output of that one
\* application call and nothing of an earlier makefile call on the socket:
\* it is no longer than the header blocks, the direct writes and the items
\* of this call together.
C20_NoLeakAcrossFinalizes ==
    ret.kind = "stream" =>
        Len(ret.data) <= Len(ResponseHeads(ret.run.sr))
                         + Len(WritesAt(ret.run.writes, {"app", "first", "rest"}))
                         + Len(BodyItems(ret.run))

\* the same for a makefile call that found self.output and
\* self.write_results empty
FreshSocketNoLeak ==
    (ret.kind = "stream" /\ ret.run.out0 = <<>> /\ ret.run.wr0 = <<>>) =>
        Len(ret.data) <= Len(ResponseHeads(ret.run.sr))
                         + Len(WritesAt(ret.run.writes, {"app", "first", "rest"}))
                         + Len(BodyItems(ret.run))

-----------------------------------------------------------------------------
(* Claims about install and uninstall (SpecInstall) *)

\* the calls so far are one or more calls of inst followed by one call of
\* uninst
InstallsThenUninstall(inst, uninst) ==
    /\ Len(patch.calls) >= 2
    /\ patch.calls[Len(patch.calls)] = uninst
    /\ \A i \in 1..(Len(patch.calls) - 1) : patch.calls[i] = inst

\* every patched extension point holds the class it held before any install
OriginalsInPlace ==
    /\ patch.scheme_http = Unpatched.scheme_http
    /\ patch.scheme_https = Unpatched.scheme_https
    /\ patch.pool_http = Unpatched.pool_http
    /\ patch.pool_https = Unpatched.pool_https

\* C21: after one or more install calls followed by one uninstall call
\* (install / uninstall of httplib2_intercept, install_opener /
\* uninstall_opener of requests_intercept), SCHEME_TO_CONNECTION['http'] and
\* ['https'] and connectionpool.HTTPConnection and HTTPSConnection hold the
\* classes they held before the first install.
C21_UninstallRestoresOriginals ==
    (\/ InstallsThenUninstall("install", "uninstall")
     \/ InstallsThenUninstall("install_opener", "uninstall_opener")) =>
        /\ patch.exc = ""
        /\ OriginalsInPlace

\* the same for any number of httplib2 installs, and for exactly one
\* install_opener
SingleInstallRestored ==
    (\/ InstallsThenUninstall("install", "uninstall")
     \/ patch.calls = <<"install_opener", "uninstall_opener">>) =>
        /\ patch.exc = ""
        /\ OriginalsInPlace

=============================================================================
